---- MODULE Spec2Model ----
(***************************************************************************)
(* Employee-records manager: the in-memory record store (MemStorage) and   *)
(* the client-side table view engine (DataTable).                          *)
(*                                                                         *)
(* Strings that the code takes apart (toLowerCase, includes) are sequences *)
(* of one-character strings; strings that are only stored and compared are *)
(* TLA+ strings.                                                           *)
(***************************************************************************)
EXTENDS Integers, Sequences, FiniteSets, TLC

VARIABLES
    employees,      \* MemStorage.employees: the Map, as its entries in insertion order
    uuidCount,      \* how many identifiers randomUUID has handed out
    now,            \* the time the server clock showed at the last new Date()
    history,        \* the store calls made so far, oldest first, with their results
    before,         \* MemStorage.employees as it was when the last call started
    requests,       \* per client, the DELETE request on its way to the server
    responses,      \* per client, the answer to its last DELETE request
    queryData,      \* DataTable: employees, the rows of the last fetch
    searchTerm,     \* DataTable: searchTerm
    sortColumn,     \* DataTable: sortColumn
    sortDirection,  \* DataTable: sortDirection, "asc", "desc" or "null"
    selectedRows,   \* DataTable: selectedRows, a set of ids
    selectionMode,  \* DataTable: selectionMode
    currentPage,    \* DataTable: currentPage
    pageSize,       \* DataTable: pageSize
    lastEvent,      \* the handler that ran last in the table, with its arguments
    mutation,       \* DataTable: the state of deleteEmployeeMutation
    fetch           \* DataTable: the fetch of the employees query on its way, if any

storeVars == <<employees, uuidCount, now, history, before>>

netVars == <<requests, responses>>

sortVars == <<sortColumn, sortDirection>>

selectionVars == <<selectedRows, selectionMode>>

pageVars == <<currentPage, pageSize>>

queryVars == <<mutation, fetch>>

viewVars ==
    <<queryData, searchTerm, sortColumn, sortDirection,
      selectedRows, selectionMode, currentPage, pageSize, lastEvent, mutation, fetch>>

vars ==
    <<employees, uuidCount, now, history, before, requests, responses,
      queryData, searchTerm, sortColumn, sortDirection,
      selectedRows, selectionMode, currentPage, pageSize, lastEvent, mutation, fetch>>

(***************************************************************************)
(* Bounds of the model                                                     *)
(***************************************************************************)
MaxOps == 3         \* store calls per behaviour
MaxTime == 1        \* the latest time the server clock shows

(***************************************************************************)
(* JavaScript values                                                       *)
(***************************************************************************)
\* undefined, as a tagged value so that it compares with any result
Undefined == [kind |-> "undefined"]

Found(v) == [kind |-> "value", value |-> v]

\* { ...a, ...b }: the own keys of both, b's value where both have the key
Spread(a, b) ==
    [k \in (DOMAIN a) \cup (DOMAIN b) |-> IF k \in DOMAIN b THEN b[k] ELSE a[k]]

(***************************************************************************)
(* Map<string, Employee>: entries [key, value] in insertion order          *)
(***************************************************************************)
MapKeys(m) == {m[i].key : i \in 1..Len(m)}

MapHas(m, k) == k \in MapKeys(m)

MapIndex(m, k) == CHOOSE i \in 1..Len(m) : m[i].key = k

MapGet(m, k) == IF MapHas(m, k) THEN Found(m[MapIndex(m, k)].value) ELSE Undefined

\* Map.set: an existing key keeps its place, a new key goes last
MapSet(m, k, v) ==
    IF MapHas(m, k)
    THEN [m EXCEPT ![MapIndex(m, k)] = [key |-> k, value |-> v]]
    ELSE Append(m, [key |-> k, value |-> v])

\* Map.delete: the entry is removed, the others keep their order
MapDelete(m, k) == SelectSeq(m, LAMBDA e : e.key # k)

MapValues(m) == [i \in 1..Len(m) |-> m[i].value]

(***************************************************************************)
(* MemStorage: construction                                                *)
(***************************************************************************)
\* what new Date() returns while the constructor runs
ConstructionTime == 0

SampleEmployee1 ==
    [id |-> "1",
     name |-> <<"S","a","r","a","h"," ","J","o","h","n","s","o","n">>,
     email |-> <<"s","a","r","a","h",".","j","o","h","n","s","o","n","@","c","o","m","p","a","n","y",".","c","o","m">>,
     department |-> <<"E","n","g","i","n","e","e","r","i","n","g">>,
     role |-> <<"S","e","n","i","o","r"," ","D","e","v","e","l","o","p","e","r">>,
     salary |-> 95000,
     status |-> "active",
     avatar |-> "https://images.unsplash.com/photo-1494790108755-2616b612b786?ixlib=rb-4.0.3&ixid=MnwxMjA3fDB8MHxwaG90by1wYWdlfHx8fGVufDB8fHx8&auto=format&fit=crop&w=200&h=200",
     employeeId |-> "EMP001",
     createdAt |-> ConstructionTime]

SampleEmployee2 ==
    [id |-> "2",
     name |-> <<"M","i","c","h","a","e","l"," ","C","h","e","n">>,
     email |-> <<"m","i","c","h","a","e","l",".","c","h","e","n","@","c","o","m","p","a","n","y",".","c","o","m">>,
     department |-> <<"M","a","r","k","e","t","i","n","g">>,
     role |-> <<"M","a","r","k","e","t","i","n","g"," ","M","a","n","a","g","e","r">>,
     salary |-> 85000,
     status |-> "active",
     avatar |-> "https://images.unsplash.com/photo-1472099645785-5658abf4ff4e?ixlib=rb-4.0.3&ixid=MnwxMjA3fDB8MHxwaG90by1wYWdlfHx8fGVufDB8fHx8&auto=format&fit=crop&w=200&h=200",
     employeeId |-> "EMP002",
     createdAt |-> ConstructionTime]

SampleEmployee3 ==
    [id |-> "3",
     name |-> <<"E","m","m","a"," ","D","a","v","i","s">>,
     email |-> <<"e","m","m","a",".","d","a","v","i","s","@","c","o","m","p","a","n","y",".","c","o","m">>,
     department |-> <<"D","e","s","i","g","n">>,
     role |-> <<"U","X"," ","D","e","s","i","g","n","e","r">>,
     salary |-> 78000,
     status |-> "on-leave",
     avatar |-> "https://images.unsplash.com/photo-1438761681033-6461ffad8d80?ixlib=rb-4.0.3&ixid=MnwxMjA3fDB8MHxwaG90by1wYWdlfHx8fGVufDB8fHx8&auto=format&fit=crop&w=200&h=200",
     employeeId |-> "EMP003",
     createdAt |-> ConstructionTime]

SampleEmployee4 ==
    [id |-> "4",
     name |-> <<"D","a","v","i","d"," ","R","o","d","r","i","g","u","e","z">>,
     email |-> <<"d","a","v","i","d",".","r","o","d","r","i","g","u","e","z","@","c","o","m","p","a","n","y",".","c","o","m">>,
     department |-> <<"S","a","l","e","s">>,
     role |-> <<"S","a","l","e","s"," ","R","e","p","r","e","s","e","n","t","a","t","i","v","e">>,
     salary |-> 65000,
     status |-> "active",
     avatar |-> "https://images.unsplash.com/photo-1507003211169-0a1dd7228f2d?ixlib=rb-4.0.3&ixid=MnwxMjA3fDB8MHxwaG90by1wYWdlfHx8fGVufDB8fHx8&auto=format&fit=crop&w=200&h=200",
     employeeId |-> "EMP004",
     createdAt |-> ConstructionTime]

SampleEmployee5 ==
    [id |-> "5",
     name |-> <<"L","i","s","a"," ","T","h","o","m","p","s","o","n">>,
     email |-> <<"l","i","s","a",".","t","h","o","m","p","s","o","n","@","c","o","m","p","a","n","y",".","c","o","m">>,
     department |-> <<"H","R">>,
     role |-> <<"H","R"," ","M","a","n","a","g","e","r">>,
     salary |-> 72000,
     status |-> "inactive",
     avatar |-> "https://images.unsplash.com/photo-1487412720507-e7ab37603c6f?ixlib=rb-4.0.3&ixid=MnwxMjA3fDB8MHxwaG90by1wYWdlfHx8fGVufDB8fHx8&auto=format&fit=crop&w=200&h=200",
     employeeId |-> "EMP005",
     createdAt |-> ConstructionTime]

sampleEmployees ==
    <<SampleEmployee1, SampleEmployee2, SampleEmployee3, SampleEmployee4, SampleEmployee5>>

\* sampleEmployees.forEach(employee => this.employees.set(employee.id, employee))
RECURSIVE SetAll(_, _, _)
SetAll(m, rows, i) ==
    IF i > Len(rows) THEN m ELSE SetAll(MapSet(m, rows[i].id, rows[i]), rows, i + 1)

initializeSampleData == SetAll(<<>>, sampleEmployees, 1)

(***************************************************************************)
(* MemStorage: the employee operations, as functions of the Map            *)
(***************************************************************************)
\* randomUUID(): the n-th identifier handed out; no two are equal and none
\* equals a seeded key
UuidPool ==
    <<"uuid-1", "uuid-2", "uuid-3", "uuid-4", "uuid-5", "uuid-6", "uuid-7",
      "uuid-8", "uuid-9", "uuid-10", "uuid-11", "uuid-12", "uuid-13",
      "uuid-14", "uuid-15", "uuid-16", "uuid-17", "uuid-18", "uuid-19",
      "uuid-20", "uuid-21", "uuid-22", "uuid-23", "uuid-24", "uuid-25",
      "uuid-26", "uuid-27", "uuid-28", "uuid-29", "uuid-30", "uuid-31",
      "uuid-32", "uuid-33", "uuid-34", "uuid-35", "uuid-36", "uuid-37",
      "uuid-38", "uuid-39", "uuid-40", "uuid-41", "uuid-42", "uuid-43",
      "uuid-44", "uuid-45", "uuid-46", "uuid-47", "uuid-48", "uuid-49",
      "uuid-50", "uuid-51", "uuid-52", "uuid-53", "uuid-54", "uuid-55",
      "uuid-56", "uuid-57", "uuid-58", "uuid-59", "uuid-60">>

randomUUID(n) == UuidPool[n]

getEmployees(m) == MapValues(m)

getEmployee(m, id) == MapGet(m, id)

\* the record without its creation timestamp
newEmployeeUnstamped(insertEmployee, id, t) == Spread(insertEmployee, [id |-> id])

\* { ...insertEmployee, id, createdAt: new Date() }
newEmployee(insertEmployee, id, t) == Spread(insertEmployee, [id |-> id, createdAt |-> t])

createEmployeeStore(m, insertEmployee, id, t) == MapSet(m, id, newEmployee(insertEmployee, id, t))

\* the spread the other way round: the old values win
updatedEmployeeOldWins(employee, updateData) == Spread(updateData, employee)

\* { ...employee, ...updateData }
updatedEmployee(employee, updateData) == Spread(employee, updateData)

updateEmployeeResult(m, id, updateData) ==
    IF ~MapHas(m, id)
    THEN Undefined
    ELSE Found(updatedEmployee(MapGet(m, id).value, updateData))

\* without the early return: an unknown id is stored as a new entry
updateEmployeeStoreUpsert(m, id, updateData) ==
    MapSet(m, id, IF MapHas(m, id)
                  THEN updatedEmployee(MapGet(m, id).value, updateData)
                  ELSE updateData)

updateEmployeeStore(m, id, updateData) ==
    IF ~MapHas(m, id)
    THEN m
    ELSE MapSet(m, id, updatedEmployee(MapGet(m, id).value, updateData))

\* whether the key is gone afterwards, which is always so
deleteEmployeeResultGone(m, id) == ~MapHas(MapDelete(m, id), id)

\* Map.delete returns whether the key was there
deleteEmployeeResult(m, id) == MapHas(m, id)

\* the entry is left in the Map
deleteEmployeeStoreKept(m, id) == m

deleteEmployeeStore(m, id) == MapDelete(m, id)

(***************************************************************************)
(* Inputs of the store calls                                               *)
(*                                                                         *)
(* Greek letters are written as named characters: "Omicron" and "Sigma"    *)
(* are the capitals, "omicron" and "sigma" the small letters, "finalsigma" *)
(* the small final sigma.                                                  *)
(***************************************************************************)
\* an InsertEmployee without the optional avatar; the salary ties with a seeded one
InsertOmar ==
    [name |-> <<"O","m","a","r"," ","D","i","a","z">>,
     email |-> <<"o","m","a","r",".","d","i","a","z","@","c","o","m","p","a","n","y",".","c","o","m">>,
     department |-> <<"E","n","g","i","n","e","e","r","i","n","g">>,
     role |-> <<"Q","A"," ","E","n","g","i","n","e","e","r">>,
     salary |-> 72000,
     status |-> "active",
     employeeId |-> "EMP006"]

\* an InsertEmployee with a Greek name
InsertOs ==
    [name |-> <<"Omicron", "finalsigma">>,
     email |-> <<"o","s","@","c","o","m","p","a","n","y",".","c","o","m">>,
     department |-> <<"S","a","l","e","s">>,
     role |-> <<"A","g","e","n","t">>,
     salary |-> 65000,
     status |-> "on-leave",
     avatar |-> "os.png",
     employeeId |-> "EMP007"]

InsertInputs == {InsertOmar, InsertOs}

\* the empty partial: no own key
EmptyPartial == [k \in {} |-> 0]

\* updateData as it arrives at run time: Partial<InsertEmployee> is erased, so
\* the object holds whatever keys the caller put there
PartialInputs ==
    {EmptyPartial,
     [salary |-> 72000],
     [name |-> <<"S","a","r","a"," ","J">>],
     [status |-> "inactive", role |-> <<"L","e","a","d">>],
     [id |-> "2"],
     [createdAt |-> 9]}

\* identifiers the calls are made with: seeded ones and generated ones,
\* which are absent until created and after deletion
TargetIds == {"1", "2", randomUUID(1)}

(***************************************************************************)
(* The store calls as actions. Each runs to completion: the methods are    *)
(* async but hold no await, and the server is single-threaded.             *)
(***************************************************************************)
\* one entry of the history: the call, its arguments, its result, the clock
Call(op, id, input, result, at) ==
    [op |-> op, id |-> id, input |-> input, result |-> result, at |-> at]

Record(call) ==
    /\ Len(history) < MaxOps
    /\ history' = Append(history, call)
    /\ before' = employees

GetEmployees ==
    /\ Record(Call("getEmployees", "", Undefined,
                   [kind |-> "list", value |-> getEmployees(employees)], now))
    /\ UNCHANGED <<employees, uuidCount, now, netVars, viewVars>>

GetEmployee(id) ==
    /\ Record(Call("getEmployee", id, Undefined, getEmployee(employees, id), now))
    /\ UNCHANGED <<employees, uuidCount, now, netVars, viewVars>>

\* t is what new Date() returns: the clock has not gone back since the last call
CreateEmployee(insertEmployee, t) ==
    LET id == randomUUID(uuidCount + 1) IN
    /\ Record(Call("createEmployee", id, Found(insertEmployee),
                   Found(newEmployee(insertEmployee, id, t)), t))
    /\ employees' = createEmployeeStore(employees, insertEmployee, id, t)
    /\ uuidCount' = uuidCount + 1
    /\ now' = t
    /\ UNCHANGED <<netVars, viewVars>>

UpdateEmployee(id, updateData) ==
    /\ Record(Call("updateEmployee", id, Found(updateData),
                   updateEmployeeResult(employees, id, updateData), now))
    /\ employees' = updateEmployeeStore(employees, id, updateData)
    /\ UNCHANGED <<uuidCount, now, netVars, viewVars>>

\* storage.deleteEmployee(id), whoever calls it
deleteEmployeeCall(id) ==
    /\ Record(Call("deleteEmployee", id, Undefined,
                   [kind |-> "boolean", value |-> deleteEmployeeResult(employees, id)], now))
    /\ employees' = deleteEmployeeStore(employees, id)
    /\ UNCHANGED <<uuidCount, now>>

DeleteEmployee(id) ==
    /\ deleteEmployeeCall(id)
    /\ UNCHANGED <<netVars, viewVars>>

(***************************************************************************)
(* DELETE /api/employees/:id from two clients: this table and another one  *)
(***************************************************************************)
Clients == {"table", "other"}

NoRequest == [kind |-> "none"]

NoResponse == [kind |-> "none"]

\* apiRequest('DELETE', `/api/employees/${id}`): the request leaves the client.
\* existed notes whether the id was in the store at that moment.
apiRequestDelete(c, id) ==
    /\ requests' = [requests EXCEPT ![c] =
                        [kind |-> "DELETE", id |-> id, existed |-> MapHas(employees, id)]]
    /\ responses' = [responses EXCEPT ![c] = NoResponse]

\* a client that sends one request at a time
sendDelete(c, id) ==
    /\ requests[c].kind = "none"
    /\ apiRequestDelete(c, id)

SendDelete(c, id) ==
    /\ sendDelete(c, id)
    /\ UNCHANGED <<storeVars, viewVars>>

\* the server takes one request and runs storage.deleteEmployee to completion
ServeDelete(c) ==
    /\ requests[c].kind = "DELETE"
    /\ deleteEmployeeCall(requests[c].id)
    /\ responses' = [responses EXCEPT ![c] =
                         [kind |-> "DELETE", id |-> requests[c].id,
                          existed |-> requests[c].existed,
                          ok |-> deleteEmployeeResult(employees, requests[c].id)]]
    /\ requests' = [requests EXCEPT ![c] = NoRequest]
    /\ UNCHANGED viewVars

StoreConstructed ==
    /\ employees = initializeSampleData
    /\ uuidCount = 0
    /\ now = ConstructionTime
    /\ history = <<>>
    /\ before = initializeSampleData
    /\ requests = [c \in Clients |-> NoRequest]
    /\ responses = [c \in Clients |-> NoResponse]

(***************************************************************************)
(* DataTable: strings                                                      *)
(***************************************************************************)
UpperLetters ==
    <<"A", "B", "C", "D", "E", "F", "G", "H", "I", "J", "K", "L", "M",
      "N", "O", "P", "Q", "R", "S", "T", "U", "V", "W", "X", "Y", "Z", "Omicron", "Sigma">>

LowerLetters ==
    <<"a", "b", "c", "d", "e", "f", "g", "h", "i", "j", "k", "l", "m",
      "n", "o", "p", "q", "r", "s", "t", "u", "v", "w", "x", "y", "z", "omicron", "sigma">>

IsUpper(c) == \E i \in 1..Len(UpperLetters) : UpperLetters[i] = c

\* the context-free lower-case mapping of one character
LowerChar(c) ==
    IF IsUpper(c)
    THEN LowerLetters[CHOOSE i \in 1..Len(UpperLetters) : UpperLetters[i] = c]
    ELSE c

\* Unicode's Cased and Case_Ignorable properties, on the characters used here
Cased(c) == IsUpper(c) \/ (\E i \in 1..Len(LowerLetters) : LowerLetters[i] = c) \/ c = "finalsigma"

CaseIgnorable(c) == c \in {".", "'", ":"}

\* SpecialCasing.txt, Final_Sigma: the sigma follows a cased letter and no
\* cased letter follows it, case-ignorable characters in between skipped
FinalSigma(s, i) ==
    /\ \E j \in 1..(i - 1) : Cased(s[j]) /\ \A k \in (j + 1)..(i - 1) : CaseIgnorable(s[k])
    /\ ~\E j \in (i + 1)..Len(s) : Cased(s[j]) /\ \A k \in (i + 1)..(j - 1) : CaseIgnorable(s[k])

\* String.prototype.toLowerCase: the Unicode mapping, which takes a capital
\* sigma to the final sigma at the end of a word and to the sigma elsewhere
toLowerCase(s) ==
    [i \in 1..Len(s) |->
        IF s[i] = "Sigma"
        THEN (IF FinalSigma(s, i) THEN "finalsigma" ELSE "sigma")
        ELSE LowerChar(s[i])]

\* F(x), with x computed once and F applied to its value: what the code
\* does when it passes a computed value on or keeps it in a const
With(x, F(_)) == CHOOSE y \in {F(v) : v \in {x}} : TRUE

\* String.prototype.includes
includes(s, searchString) ==
    \E text \in {s}, term \in {searchString} :
        \E i \in 0..(Len(text) - Len(term)) :
            SubSeq(text, i + 1, i + Len(term)) = term

(***************************************************************************)
(* DataTable: filter                                                       *)
(***************************************************************************)
\* the term is compared as typed, without toLowerCase
matchesSearchTermAsTyped(employee, term) ==
    \/ includes(toLowerCase(employee.name), term)
    \/ includes(toLowerCase(employee.email), term)
    \/ includes(toLowerCase(employee.department), term)
    \/ includes(toLowerCase(employee.role), term)

\* the predicate of employees.filter
matchesSearch(employee, term) ==
    \/ includes(toLowerCase(employee.name), toLowerCase(term))
    \/ includes(toLowerCase(employee.email), toLowerCase(term))
    \/ includes(toLowerCase(employee.department), toLowerCase(term))
    \/ includes(toLowerCase(employee.role), toLowerCase(term))

\* employees.filter(...): a new array, the rows kept in their order
filterEmployees(rows, term) == SelectSeq(rows, LAMBDA e : matchesSearch(e, term))

(***************************************************************************)
(* DataTable: sort                                                         *)
(***************************************************************************)
\* the collation order of the characters used here (CLDR root): white space,
\* punctuation, digits, letters; case and the form of the sigma do not count
\* at the first level
CollationOrder ==
    <<" ", "-", ":", ".", "'", "@", "0", "1", "2", "3", "4", "5", "6", "7", "8", "9",
      "a", "b", "c", "d", "e", "f", "g", "h", "i", "j", "k", "l", "m",
      "n", "o", "p", "q", "r", "s", "t", "u", "v", "w", "x", "y", "z", "omicron", "sigma">>

BaseChar(c) == IF c = "finalsigma" THEN "sigma" ELSE LowerChar(c)

PrimaryWeight(c) == CHOOSE i \in 1..Len(CollationOrder) : CollationOrder[i] = BaseChar(c)

\* lower case sorts before upper case when the letters are the same
TertiaryWeight(c) == IF IsUpper(c) THEN 2 ELSE IF c = "finalsigma" THEN 1 ELSE 0

\* lexicographic comparison of two sequences of weights: -1, 0 or 1
CompareWeights(ka, kb) ==
    LET n == IF Len(ka) < Len(kb) THEN Len(ka) ELSE Len(kb)
        diff == {i \in 1..n : ka[i] # kb[i]}
    IN  IF diff # {}
        THEN LET d == CHOOSE i \in diff : \A j \in diff : i <= j
             IN  IF ka[d] < kb[d] THEN -1 ELSE 1
        ELSE IF Len(ka) < Len(kb) THEN -1
        ELSE IF Len(ka) > Len(kb) THEN 1
        ELSE 0

\* String.prototype.localeCompare
localeCompare(a, b) ==
    LET primary == CompareWeights([i \in 1..Len(a) |-> PrimaryWeight(a[i])],
                                  [i \in 1..Len(b) |-> PrimaryWeight(b[i])])
    IN  IF primary # 0
        THEN primary
        ELSE CompareWeights([i \in 1..Len(a) |-> TertiaryWeight(a[i])],
                            [i \in 1..Len(b) |-> TertiaryWeight(b[i])])

\* typeof a[column], for the columns a header can make the sort column
typeof(row, column) ==
    IF column \notin DOMAIN row THEN "undefined"
    ELSE IF column = "salary" THEN "number"
    ELSE "string"

\* the comparator with the direction not applied
compareAscending(a, b, column, direction) ==
    IF typeof(a, column) = "string" /\ typeof(b, column) = "string"
    THEN localeCompare(a[column], b[column])
    ELSE IF typeof(a, column) = "number" /\ typeof(b, column) = "number"
    THEN a[column] - b[column]
    ELSE 0

\* the comparator given to filtered.sort
compare(a, b, column, direction) ==
    IF typeof(a, column) = "string" /\ typeof(b, column) = "string"
    THEN LET comparison == localeCompare(a[column], b[column])
         IN  IF direction = "asc" THEN comparison ELSE -comparison
    ELSE IF typeof(a, column) = "number" /\ typeof(b, column) = "number"
    THEN LET comparison == a[column] - b[column]
         IN  IF direction = "asc" THEN comparison ELSE -comparison
    ELSE 0

\* Array.prototype.sort is stable; the comparator is a total preorder on the
\* rows (strings by collation, numbers by value), so every stable sort gives
\* the same order. It is computed by insertion: row x goes before the first
\* row already placed that compares greater. order holds indices into rows.
InsertInOrder(order, x, rows, column, direction) ==
    LET greater == {k \in 1..Len(order) :
                       compare(rows[order[k]], rows[x], column, direction) > 0}
        p == IF greater = {}
             THEN Len(order)
             ELSE (CHOOSE k \in greater : \A j \in greater : k <= j) - 1
    IN  SubSeq(order, 1, p) \o <<x>> \o SubSeq(order, p + 1, Len(order))

RECURSIVE SortFrom(_, _, _, _, _)
SortFrom(order, x, rows, column, direction) ==
    IF x > Len(rows)
    THEN order
    ELSE LET placed == InsertInOrder(order, x, rows, column, direction)
         IN  \* Len(placed) = x always: taking the length has placed computed
             \* at this step, before the next row is taken
             IF Len(placed) = x
             THEN SortFrom(placed, x + 1, rows, column, direction)
             ELSE placed

\* the order filtered.sort leaves the rows in, as indices into rows
sortOrder(rows, column, direction) == SortFrom(<<>>, 1, rows, column, direction)

sortRows(rows, column, direction) ==
    With(rows, LAMBDA filtered :
        With(sortOrder(filtered, column, direction), LAMBDA order :
            [i \in 1..Len(filtered) |-> filtered[order[i]]]))

\* the useMemo: filter, then sort when a direction is set
filteredAndSorted(rows, term, column, direction) ==
    IF direction # "null"
    THEN sortRows(filterEmployees(rows, term), column, direction)
    ELSE filterEmployees(rows, term)

filteredAndSortedEmployees ==
    filteredAndSorted(queryData, searchTerm, sortColumn, sortDirection)

(***************************************************************************)
(* DataTable: pagination                                                   *)
(***************************************************************************)
Min(a, b) == IF a < b THEN a ELSE b

Max(a, b) == IF a > b THEN a ELSE b

\* Array.prototype.slice(start, end): a negative index counts from the end,
\* both are clamped to the array, and an empty range gives the empty array
slice(arr, start, end) ==
    With(arr, LAMBDA array :
        LET len == Len(array)
            k == IF start < 0 THEN Max(len + start, 0) ELSE Min(start, len)
            final == IF end < 0 THEN Max(len + end, 0) ELSE Min(end, len)
        IN  IF k >= final THEN <<>> ELSE SubSeq(array, k + 1, final))

\* the page count rounded down instead of up
floorDiv(length, size) == length \div size

\* Math.ceil(length / pageSize), for a length >= 0 and a pageSize > 0
ceilDiv(length, size) ==
    IF length % size = 0 THEN length \div size ELSE (length \div size) + 1

totalPagesOf(rows, size) == With(Len(rows), LAMBDA length : ceilDiv(length, size))

\* the slice of a page number first brought into 1..totalPages
paginateClamped(rows, page, size) ==
    LET last == Max(totalPagesOf(rows, size), 1)
        shown == Min(Max(page, 1), last)
    IN  slice(rows, (shown - 1) * size, shown * size)

\* filteredAndSortedEmployees.slice((currentPage - 1) * pageSize, currentPage * pageSize)
paginate(rows, page, size) == slice(rows, (page - 1) * size, page * size)

totalPages == totalPagesOf(filteredAndSortedEmployees, pageSize)

paginatedEmployees == paginate(filteredAndSortedEmployees, currentPage, pageSize)

\* a page that leaves out the selected rows
renderPageHidingSelected(rows, term, column, direction, page, size, selected, mode) ==
    [employees |-> rows,
     page |-> SelectSeq(paginate(filteredAndSorted(rows, term, column, direction), page, size),
                        LAMBDA e : e.id \notin selected)]

\* what one render computes from the table's state: filter returns a new
\* array, sort sorts that array in place and slice copies from it, so the
\* array employees is as it was; the selection is not read
renderPage(rows, term, column, direction, page, size, selected, mode) ==
    [employees |-> rows,
     page |-> paginate(filteredAndSorted(rows, term, column, direction), page, size)]

\* the ids of the rows on the page shown
PageIds == With(paginatedEmployees, LAMBDA page : {page[i].id : i \in 1..Len(page)})

\* the branch of the render that shows the table and its footer: the query
\* has delivered rows and filteredAndSortedEmployees.length is not 0. The
\* sort is in place, so the length is the one employees.filter left.
DataState == Len(filterEmployees(queryData, searchTerm)) > 0

(***************************************************************************)
(* DataTable: the rows a fetch can return, and the terms typed             *)
(***************************************************************************)
StoreWithTwoMore ==
    createEmployeeStore(
        createEmployeeStore(initializeSampleData, InsertOmar, randomUUID(1), 1),
        InsertOs, randomUUID(2), 1)

RowSets ==
    {getEmployees(initializeSampleData),
     getEmployees(StoreWithTwoMore),
     getEmployees(updateEmployeeStore(initializeSampleData, "1", [salary |-> 72000])),
     getEmployees(deleteEmployeeStore(deleteEmployeeStore(StoreWithTwoMore, "1"), "3")),
     <<>>}

SearchTerms ==
    {<<>>,
     <<"E", "N", "G", "I", "N", "E", "E", "R", "I", "N", "G">>,
     <<"e", "n", "g", "i", "n", "e", "e", "r", "i", "n", "g">>,
     <<"E", "n", "g">>,
     <<"e">>,
     <<"a">>,
     <<"S", "a">>,
     <<"m", "a", "n", "a", "g", "e", "r">>,
     <<".", "c", "o", "m">>,
     <<"h", "r">>,
     <<"z", "z", "z">>,
     <<"Sigma">>,
     <<"Omicron", "Sigma">>}

\* what getEmployees returns after n calls of createEmployee on the sample
\* data, four for Sales and the others for Finance: Map.set puts the entry
\* of a new key last and values() follows the order of insertion
RowsWithMore(n) ==
    getEmployees(initializeSampleData)
        \o [i \in 1..n |->
               newEmployee(IF i <= 4 THEN InsertOs ELSE InsertOmar, randomUUID(i), 1)]

\* fetches of 5, 26 and 52 rows, and of none
PageRowSets == {RowsWithMore(0), RowsWithMore(21), RowsWithMore(47), <<>>}

\* a fetch of 12 rows: at ten rows a page, two rows stand on page 2
SelectRowSets == {RowsWithMore(0), RowsWithMore(7)}

SelectSearchTerms == {<<>>, <<"s", "a", "l", "e", "s">>}

\* the rows whose checkbox is used: one of page 1 and, of the 12 rows, one
\* of page 2; both are in Sales
SelectTargets == {"4", randomUUID(3)}

\* the row whose delete button is used
DeleteTargets == {"4"}

SelectionModes == {"multiple", "single", "none"}

PageSearchTerms ==
    {<<>>,
     <<"s", "a", "l", "e", "s">>,
     <<"z", "z", "z">>}

\* the columns whose header calls handleSort
SortableColumns == {"name", "email", "department", "role", "salary"}

(***************************************************************************)
(* DataTable: handlers                                                     *)
(***************************************************************************)
\* the handler that ran last, with its arguments: a record of the run kept
\* for stating what one handler does
Event(name, target, checked) == [name |-> name, target |-> target, checked |-> checked]

\* a search that goes back to the first page
SetSearchTermResetting(value) ==
    /\ searchTerm' = value
    /\ currentPage' = 1
    /\ lastEvent' = Event("setSearchTerm", "", FALSE)
    /\ UNCHANGED <<queryData, sortVars, selectionVars, pageSize, queryVars, storeVars, netVars>>

\* onChange of the search input
SetSearchTerm(value) ==
    /\ searchTerm' = value
    /\ lastEvent' = Event("setSearchTerm", "", FALSE)
    /\ UNCHANGED <<queryData, sortVars, selectionVars, pageVars, queryVars, storeVars, netVars>>

\* the direction toggled between ascending and descending only
nextDirectionToggle(direction) ==
    IF direction = "asc" THEN "desc" ELSE "asc"

\* every click sorts the column ascending
handleSortAscending(column) ==
    /\ sortColumn' = column
    /\ sortDirection' = "asc"

nextDirection(direction) ==
    IF direction = "asc" THEN "desc" ELSE IF direction = "desc" THEN "null" ELSE "asc"

handleSort(column) ==
    IF sortColumn = column
    THEN /\ sortDirection' = nextDirection(sortDirection)
         /\ sortColumn' = column
    ELSE /\ sortColumn' = column
         /\ sortDirection' = "asc"

\* onClick of a column header; the headers are rendered with the data table
HandleSort(column) ==
    /\ DataState
    /\ handleSort(column)
    /\ lastEvent' = Event("handleSort", column, FALSE)
    /\ UNCHANGED <<queryData, searchTerm, selectionVars, pageVars, queryVars, storeVars, netVars>>

\* single mode treated as multiple mode
handleRowSelectionAdding(selected, mode, id, checked) ==
    IF mode = "none"
    THEN selected
    ELSE (IF checked THEN selected \cup {id} ELSE selected \ {id})

\* a checked row added and every other row dropped, in every mode
handleRowSelectionReplacing(selected, mode, id, checked) ==
    IF mode = "none"
    THEN selected
    ELSE (IF checked THEN {id} ELSE selected \ {id})

\* the set handleRowSelection passes to setSelectedRows
handleRowSelection(selected, mode, id, checked) ==
    IF mode = "single"
    THEN (IF checked THEN {id} ELSE {})
    ELSE IF mode = "multiple"
    THEN (IF checked THEN selected \cup {id} ELSE selected \ {id})
    ELSE selected

\* the set handleSelectAll passes to setSelectedRows: a new Set, filled with
\* the ids of the page when checked; outside multiple mode nothing is set
handleSelectAll(selected, mode, pageIds, checked) ==
    IF mode = "multiple"
    THEN (IF checked THEN pageIds ELSE {})
    ELSE selected

\* the delete that leaves the selection alone
selectionAfterDeleteKept(selected, id) == selected

\* the updater handleDelete passes to setSelectedRows
selectionAfterDelete(selected, id) == selected \ {id}

\* checked of the select-all checkbox
selectAllChecked ==
    \E page \in {paginatedEmployees} :
        /\ Len(page) > 0
        /\ \A i \in 1..Len(page) : page[i].id \in selectedRows

\* the row is drawn highlighted
rowHighlighted(id) == id \in selectedRows

\* the badge with the number of selected rows is drawn
selectionCountShown == Cardinality(selectedRows) > 0

\* onCheckedChange of a row's checkbox, rendered for the rows of the page
\* when the mode is not none; a click asks for the opposite of what is shown
HandleRowSelection(id) ==
    /\ DataState
    /\ selectionMode # "none"
    /\ id \in PageIds
    /\ selectedRows' = handleRowSelection(selectedRows, selectionMode, id, ~rowHighlighted(id))
    /\ lastEvent' = Event("handleRowSelection", id, ~rowHighlighted(id))
    /\ UNCHANGED <<queryData, searchTerm, sortVars, selectionMode, pageVars, queryVars, storeVars, netVars>>

\* onCheckedChange of the select-all checkbox, rendered in multiple mode
HandleSelectAll ==
    /\ DataState
    /\ selectionMode = "multiple"
    /\ selectedRows' = handleSelectAll(selectedRows, selectionMode, PageIds, ~selectAllChecked)
    /\ lastEvent' = Event("handleSelectAll", "", ~selectAllChecked)
    /\ UNCHANGED <<queryData, searchTerm, sortVars, selectionMode, pageVars, queryVars, storeVars, netVars>>

\* a change of mode that empties the selection
SetSelectionModeClearing(value) ==
    /\ selectionMode' = value
    /\ selectedRows' = {}
    /\ lastEvent' = Event("setSelectionMode", value, FALSE)
    /\ UNCHANGED <<queryData, searchTerm, sortVars, pageVars, queryVars, storeVars, netVars>>

\* onValueChange of the selection-mode select
SetSelectionMode(value) ==
    /\ selectionMode' = value
    /\ lastEvent' = Event("setSelectionMode", value, FALSE)
    /\ UNCHANGED <<queryData, searchTerm, sortVars, selectedRows, pageVars, queryVars, storeVars, netVars>>

\* the states of deleteEmployeeMutation: idle, then pending from mutate(id)
\* until the request settles, then success or error
IdleMutation == [status |-> "idle", id |-> ""]

NoFetch == [kind |-> "none"]

\* the delete buttons never disabled
isPendingNever == FALSE

\* deleteEmployeeMutation.isPending
isPending == mutation.status = "pending"

\* deleteEmployeeMutation.mutate(id): the mutation is pending and mutationFn
\* sends the request
mutate(id) ==
    /\ mutation' = [status |-> "pending", id |-> id]
    /\ apiRequestDelete("table", id)

\* a delete that takes the row out of the cached rows at once
HandleDeleteOptimistic(id) ==
    /\ DataState
    /\ id \in PageIds
    /\ ~isPending
    /\ mutate(id)
    /\ selectedRows' = selectionAfterDelete(selectedRows, id)
    /\ queryData' = SelectSeq(queryData, LAMBDA e : e.id # id)
    /\ lastEvent' = Event("handleDelete", id, rowHighlighted(id))
    /\ UNCHANGED <<searchTerm, sortVars, selectionMode, pageVars, fetch, storeVars>>

\* onClick of a row's delete button, disabled while a delete is pending:
\* mutate(id) sends the request and the id leaves the selection. The event
\* notes whether the row was selected.
HandleDelete(id) ==
    /\ DataState
    /\ id \in PageIds
    /\ ~isPending
    /\ mutate(id)
    /\ selectedRows' = selectionAfterDelete(selectedRows, id)
    /\ lastEvent' = Event("handleDelete", id, rowHighlighted(id))
    /\ UNCHANGED <<queryData, searchTerm, sortVars, selectionMode, pageVars, fetch, storeVars>>

\* the values of the page-size select: the digits of 10, 25, 50 and 100
PageSizeValues == {<<1, 0>>, <<2, 5>>, <<5, 0>>, <<1, 0, 0>>}

\* parseInt of a string of decimal digits
RECURSIVE parseInt(_)
parseInt(digits) ==
    IF digits = <<>>
    THEN 0
    ELSE 10 * parseInt(SubSeq(digits, 1, Len(digits) - 1)) + digits[Len(digits)]

\* onValueChange of the page-size select, in the footer
SetPageSize(value) ==
    /\ DataState
    /\ pageSize' = parseInt(value)
    /\ lastEvent' = Event("setPageSize", "", FALSE)
    /\ UNCHANGED <<queryData, searchTerm, sortVars, selectionVars, currentPage, queryVars, storeVars, netVars>>

\* the Previous button, disabled on page 1
PreviousPage ==
    /\ DataState
    /\ currentPage # 1
    /\ currentPage' = Max(currentPage - 1, 1)
    /\ lastEvent' = Event("previousPage", "", FALSE)
    /\ UNCHANGED <<queryData, searchTerm, sortVars, selectionVars, pageSize, queryVars, storeVars, netVars>>

\* a Next button that clears the selection
NextPageClearing ==
    /\ DataState
    /\ currentPage # totalPages
    /\ currentPage' = Min(currentPage + 1, totalPages)
    /\ selectedRows' = {}
    /\ lastEvent' = Event("nextPage", "", FALSE)
    /\ UNCHANGED <<queryData, searchTerm, sortVars, selectionMode, pageSize, queryVars, storeVars, netVars>>

\* the Next button, disabled on the last page
NextPage ==
    /\ DataState
    /\ currentPage # totalPages
    /\ currentPage' = Min(currentPage + 1, totalPages)
    /\ lastEvent' = Event("nextPage", "", FALSE)
    /\ UNCHANGED <<queryData, searchTerm, sortVars, selectionVars, pageSize, queryVars, storeVars, netVars>>

\* one of the numbered buttons, drawn for the first five pages at most
GoToPage(page) ==
    /\ DataState
    /\ page \in 1..Min(totalPages, 5)
    /\ currentPage' = page
    /\ lastEvent' = Event("goToPage", "", FALSE)
    /\ UNCHANGED <<queryData, searchTerm, sortVars, selectionVars, pageSize, queryVars, storeVars, netVars>>

\* the button of the last page, drawn when there are more than five pages
LastPage ==
    /\ DataState
    /\ totalPages > 5
    /\ currentPage' = totalPages
    /\ lastEvent' = Event("lastPage", "", FALSE)
    /\ UNCHANGED <<queryData, searchTerm, sortVars, selectionVars, pageSize, queryVars, storeVars, netVars>>

\* the useState initial values
ViewMounted ==
    /\ searchTerm = <<>>
    /\ sortColumn = "salary"
    /\ sortDirection = "desc"
    /\ selectedRows = {}
    /\ selectionMode = "multiple"
    /\ currentPage = 1
    /\ pageSize = 10
    /\ lastEvent = Event("mount", "", FALSE)

\* the first fetch of the query has delivered its rows and no delete has run
QueryLoaded ==
    /\ mutation = IdleMutation
    /\ fetch = NoFetch

(***************************************************************************)
(* DataTable: the delete mutation settling and the query refetching        *)
(***************************************************************************)

\* the store's answer to the table's delete request has arrived
DeleteResponded ==
    /\ isPending
    /\ requests["table"].kind = "none"
    /\ responses["table"].kind = "DELETE"

\* the route answers with a success status when deleteEmployee returned true,
\* and apiRequest resolves on a success status
DeleteAcknowledged == DeleteResponded /\ responses["table"].ok

\* the route answers "not found" when deleteEmployee returned false, and
\* apiRequest throws on that status
DeleteNotFound == DeleteResponded /\ ~responses["table"].ok

\* an acknowledgement that starts no refetch
invalidateQueriesSkipped == UNCHANGED fetch

\* queryClient.invalidateQueries({ queryKey: ['/api/employees'] }): the
\* mounted query is refetched, and a fetch already on its way is cancelled
invalidateQueries == fetch' = [kind |-> "GET"]

\* a failure that refetches as an acknowledgement does
onErrorRefetching(id) ==
    /\ mutation' = [status |-> "error", id |-> id]
    /\ fetch' = [kind |-> "GET"]
    /\ lastEvent' = Event("onError", id, FALSE)
    /\ UNCHANGED <<queryData, searchTerm, sortVars, selectionVars, pageVars>>

\* onError of deleteEmployeeMutation: a toast, and nothing else
onError(id) ==
    /\ mutation' = [status |-> "error", id |-> id]
    /\ lastEvent' = Event("onError", id, FALSE)
    /\ UNCHANGED <<queryData, searchTerm, sortVars, selectionVars, pageVars, fetch>>

\* onSuccess of deleteEmployeeMutation: the query is invalidated, and a toast
DeleteSucceeds ==
    /\ DeleteAcknowledged
    /\ mutation' = [status |-> "success", id |-> mutation.id]
    /\ invalidateQueries
    /\ lastEvent' = Event("onSuccess", mutation.id, FALSE)
    /\ UNCHANGED <<queryData, searchTerm, sortVars, selectionVars, pageVars,
                   storeVars, netVars>>

\* the delete request answered "not found": mutationFn throws
DeleteRejected ==
    /\ DeleteNotFound
    /\ onError(mutation.id)
    /\ UNCHANGED <<storeVars, netVars>>

\* the delete request or its answer lost on the network: mutationFn throws
DeleteLost ==
    /\ isPending
    /\ requests' = [requests EXCEPT !["table"] = NoRequest]
    /\ responses' = [responses EXCEPT !["table"] = NoResponse]
    /\ onError(mutation.id)
    /\ UNCHANGED storeVars

\* the server answers the query's GET with the store's list
ServeFetch ==
    /\ fetch.kind = "GET"
    /\ fetch' = [kind |-> "rows", rows |-> getEmployees(employees)]
    /\ UNCHANGED <<queryData, searchTerm, sortVars, selectionVars, pageVars, lastEvent,
                   mutation, storeVars, netVars>>

\* the refetch completes: its rows are the query's data
FetchSettled ==
    /\ fetch.kind = "rows"
    /\ queryData' = fetch.rows
    /\ fetch' = NoFetch
    /\ lastEvent' = Event("refetched", "", FALSE)
    /\ UNCHANGED <<searchTerm, sortVars, selectionVars, pageVars, mutation,
                   storeVars, netVars>>

(***************************************************************************)
(* Specifications                                                          *)
(***************************************************************************)
\* the store alone: calls made one after another
StoreInit ==
    /\ StoreConstructed
    /\ queryData = <<>>
    /\ ViewMounted
    /\ QueryLoaded

StoreNext ==
    \/ GetEmployees
    \/ \E id \in TargetIds : GetEmployee(id)
    \/ \E input \in InsertInputs, t \in now..MaxTime : CreateEmployee(input, t)
    \/ \E id \in TargetIds, updateData \in PartialInputs : UpdateEmployee(id, updateData)
    \/ \E id \in TargetIds : DeleteEmployee(id)

SpecStore == StoreInit /\ [][StoreNext]_vars

\* the store serving the DELETE requests of two clients
RaceNext ==
    \/ \E c \in Clients, id \in TargetIds : SendDelete(c, id)
    \/ \E c \in Clients : ServeDelete(c)

SpecRace == StoreInit /\ [][RaceNext]_vars

\* the table holding the rows of an earlier fetch, whatever the store holds
\* by now; the store takes no step here
ViewInit ==
    /\ StoreConstructed
    /\ queryData \in RowSets
    /\ ViewMounted
    /\ QueryLoaded

ViewNext ==
    \/ \E value \in SearchTerms : SetSearchTerm(value)
    \/ \E column \in SortableColumns : HandleSort(column)

SpecView == ViewInit /\ [][ViewNext]_vars

\* the table paging through the rows of a fetch
PageInit ==
    /\ StoreConstructed
    /\ queryData \in PageRowSets
    /\ ViewMounted
    /\ QueryLoaded

PageNext ==
    \/ \E value \in PageSearchTerms : SetSearchTerm(value)
    \/ \E value \in PageSizeValues : SetPageSize(value)
    \/ PreviousPage
    \/ NextPage
    \/ \E page \in 1..5 : GoToPage(page)
    \/ LastPage

SpecPage == PageInit /\ [][PageNext]_vars

\* the table with its selection: rows are selected, pages turned, the list
\* searched, a row deleted; the delete request stays in flight
SelectInit ==
    /\ StoreConstructed
    /\ queryData \in SelectRowSets
    /\ ViewMounted
    /\ QueryLoaded

SelectNext ==
    \/ \E id \in SelectTargets : HandleRowSelection(id)
    \/ HandleSelectAll
    \/ \E value \in SelectionModes : SetSelectionMode(value)
    \/ \E id \in DeleteTargets : HandleDelete(id)
    \/ \E value \in SelectSearchTerms : SetSearchTerm(value)
    \/ PreviousPage
    \/ NextPage

SpecSelect == SelectInit /\ [][SelectNext]_vars

(***************************************************************************)
(* The table deleting rows of the store                                    *)
(***************************************************************************)

DeleteRows == {"4", "2"}

OtherDeleteRows == {"4"}

DeleteInit ==
    /\ StoreConstructed
    /\ queryData = getEmployees(employees)
    /\ ViewMounted
    /\ QueryLoaded

DeleteNext ==
    \/ \E id \in DeleteTargets : HandleRowSelection(id)
    \/ HandleSelectAll
    \/ \E id \in DeleteRows : HandleDelete(id)
    \/ ServeDelete("table")
    \/ DeleteSucceeds
    \/ DeleteRejected
    \/ DeleteLost
    \/ ServeFetch
    \/ FetchSettled

SpecDelete == DeleteInit /\ [][DeleteNext]_vars

\* the table next to another client, on a network that delivers: requests
\* are served and answers arrive
DeleteFairNext ==
    \/ \E id \in DeleteRows : HandleDelete(id)
    \/ ServeDelete("table")
    \/ DeleteSucceeds
    \/ DeleteRejected
    \/ ServeFetch
    \/ FetchSettled
    \/ \E id \in OtherDeleteRows : SendDelete("other", id)
    \/ ServeDelete("other")

SpecDeleteFair ==
    /\ DeleteInit
    /\ [][DeleteFairNext]_vars
    /\ WF_vars(ServeDelete("table"))
    /\ WF_vars(DeleteSucceeds)
    /\ WF_vars(ServeFetch)
    /\ WF_vars(FetchSettled)

(***************************************************************************)
(* The table's view state next to a delete and its refetch                 *)
(***************************************************************************)

\* the store after six employees were created: eleven rows, two pages of ten
FrameStore == SetAll(<<>>, RowsWithMore(6), 1)

FrameSelectRows == {"1"}

FramePageSizes == {<<1, 0>>, <<2, 5>>}

FrameInit ==
    /\ employees = FrameStore
    /\ uuidCount = Len(FrameStore) - Len(sampleEmployees)
    /\ now = MaxTime
    /\ history = <<>>
    /\ before = FrameStore
    /\ requests = [c \in Clients |-> NoRequest]
    /\ responses = [c \in Clients |-> NoResponse]
    /\ queryData = getEmployees(employees)
    /\ ViewMounted
    /\ QueryLoaded

FrameNext ==
    \/ \E value \in SelectSearchTerms : SetSearchTerm(value)
    \/ \E value \in FramePageSizes : SetPageSize(value)
    \/ HandleSort("salary")
    \/ PreviousPage
    \/ NextPage
    \/ \E id \in FrameSelectRows : HandleRowSelection(id)
    \/ \E id \in DeleteTargets : HandleDelete(id)
    \/ ServeDelete("table")
    \/ DeleteSucceeds
    \/ ServeFetch
    \/ FetchSettled

SpecFrame == FrameInit /\ [][FrameNext]_vars


(***************************************************************************)
(* Properties of the record store                                          *)
(***************************************************************************)
LastCall == history[Len(history)]

Called(op) == Len(history) > 0 /\ LastCall.op = op

\* the entries of m other than the one under key k, in order
Others(m, k) == SelectSeq(m, LAMBDA e : e.key # k)

\* C1: createEmployee followed by getEmployee on the returned id yields the
\* record create returned, and that record holds exactly the input's fields
\* with the input's values, plus the generated id and the creation timestamp.
CreateThenGet ==
    \A i \in 2..Len(history) :
        LET c == history[i - 1]
            g == history[i]
        IN  (c.op = "createEmployee" /\ g.op = "getEmployee" /\ g.id = c.result.value.id)
            => /\ g.result.kind = "value"
               /\ g.result.value = c.result.value
               /\ DOMAIN g.result.value = (DOMAIN c.input.value) \cup {"id", "createdAt"}
               /\ \A k \in DOMAIN c.input.value : g.result.value[k] = c.input.value[k]
               /\ g.result.value.id = c.id
               /\ g.result.value.createdAt = c.at

CreateThenGetWitness ==
    /\ Len(history) >= 2
    /\ history[Len(history) - 1].op = "createEmployee"
    /\ LastCall.op = "getEmployee"
    /\ LastCall.id = history[Len(history) - 1].result.value.id
    /\ LastCall.result.value.createdAt > ConstructionTime

\* C2: updateEmployee on an existing id leaves the stored record's id and
\* createdAt as they were, whatever the partial input holds.
UpdateKeepsIdAndCreatedAt ==
    (Called("updateEmployee") /\ MapHas(before, LastCall.id))
    => /\ MapGet(employees, LastCall.id).value.id = MapGet(before, LastCall.id).value.id
       /\ MapGet(employees, LastCall.id).value.createdAt
              = MapGet(before, LastCall.id).value.createdAt

\* C3: a call with an id that is not in the store returns undefined
\* (getEmployee, updateEmployee) or false (deleteEmployee) and leaves the
\* store as it was.
AbsentIdIsNotFound ==
    (Len(history) > 0 /\ LastCall.op \in {"getEmployee", "updateEmployee", "deleteEmployee"}
        /\ ~MapHas(before, LastCall.id))
    => /\ LastCall.op \in {"getEmployee", "updateEmployee"} => LastCall.result = Undefined
       /\ LastCall.op = "deleteEmployee" => LastCall.result = [kind |-> "boolean", value |-> FALSE]
       /\ employees = before

AbsentIdIsNotFoundWitness ==
    /\ Called("updateEmployee")
    /\ ~MapHas(before, LastCall.id)
    /\ LastCall.input.value # EmptyPartial
    /\ \E i \in 1..Len(history) : history[i].op = "deleteEmployee" /\ history[i].id = LastCall.id

\* C4: updateEmployee on an existing id returns and stores the old record
\* with exactly the fields of the partial overwritten; the other records
\* and the order of the entries are unchanged; with the empty partial the
\* record returned is the old record.
UpdateOverwritesOnlyGiven ==
    (Called("updateEmployee") /\ MapHas(before, LastCall.id))
    => LET old == MapGet(before, LastCall.id).value
           partial == LastCall.input.value
           new == LastCall.result.value
       IN  /\ LastCall.result.kind = "value"
           /\ DOMAIN new = (DOMAIN old) \cup (DOMAIN partial)
           /\ \A k \in DOMAIN partial : new[k] = partial[k]
           /\ \A k \in (DOMAIN old) \ (DOMAIN partial) : new[k] = old[k]
           /\ MapGet(employees, LastCall.id) = Found(new)
           /\ Len(employees) = Len(before)
           /\ \A i \in 1..Len(before) :
                  /\ employees[i].key = before[i].key
                  /\ before[i].key # LastCall.id => employees[i] = before[i]
           /\ partial = EmptyPartial => new = old

UpdateOverwritesOnlyGivenWitness ==
    /\ Called("updateEmployee")
    /\ MapHas(before, LastCall.id)
    /\ Cardinality(DOMAIN LastCall.input.value) = 2
    /\ employees # before

\* C5: deleteEmployee returns true exactly when the id was in the store;
\* afterwards the id is absent and the other entries are unchanged, so a
\* second delete of the same id returns false.
DeleteReportsRemoval ==
    /\ Called("deleteEmployee")
        => /\ LastCall.result.value = MapHas(before, LastCall.id)
           /\ ~MapHas(employees, LastCall.id)
           /\ employees = Others(before, LastCall.id)
    /\ \A i \in 2..Len(history) :
           (history[i].op = "deleteEmployee" /\ history[i - 1].op = "deleteEmployee"
               /\ history[i].id = history[i - 1].id)
           => history[i].result.value = FALSE

DeleteReportsRemovalWitness ==
    /\ Len(history) >= 2
    /\ Called("deleteEmployee")
    /\ history[Len(history) - 1].op = "deleteEmployee"
    /\ history[Len(history) - 1].id = LastCall.id
    /\ history[Len(history) - 1].result.value = TRUE

\* C6: identifiers are unique in the store: every stored record's id is the
\* key it is stored under, so no two stored records share an id.
IdsUnique ==
    /\ \A i \in 1..Len(employees) : employees[i].value.id = employees[i].key
    /\ \A i, j \in 1..Len(employees) :
           employees[i].value.id = employees[j].value.id => i = j

\* C7: when the delete requests of both clients were sent for the same id
\* while it was in the store and both have been served, in either order,
\* exactly one was answered true and the other false, the id is absent and
\* the other entries are as they were; the two calls ran one after the other,
\* the first returning true and the second false.
ConcurrentDeletes ==
    (/\ responses["table"].kind = "DELETE" /\ responses["other"].kind = "DELETE"
     /\ responses["table"].id = responses["other"].id
     /\ responses["table"].existed /\ responses["other"].existed)
    => /\ responses["table"].ok # responses["other"].ok
       /\ ~MapHas(employees, responses["table"].id)
       /\ employees = Others(before, responses["table"].id)
       /\ Len(history) >= 2
       /\ history[Len(history) - 1].op = "deleteEmployee"
       /\ history[Len(history) - 1].id = responses["table"].id
       /\ LastCall.op = "deleteEmployee" /\ LastCall.id = responses["table"].id
       /\ history[Len(history) - 1].result.value /\ ~LastCall.result.value

ConcurrentDeletesWitness ==
    /\ responses["table"].kind = "DELETE" /\ responses["other"].kind = "DELETE"
    /\ responses["table"].id = responses["other"].id
    /\ responses["table"].existed /\ responses["other"].existed
    /\ responses["other"].ok

(***************************************************************************)
(* Properties of the filter and the sort                                   *)
(***************************************************************************)
Range(seq) == {seq[i] : i \in 1..Len(seq)}

SearchedFields == {"name", "email", "department", "role"}

\* the lower-cased term stands in the lower-cased text, character by character
OccursIn(text, term) ==
    \E off \in 0..(Len(text) - Len(term)) :
        \A k \in 1..Len(term) : toLowerCase(text)[off + k] = toLowerCase(term)[k]

\* C8: the filter keeps a row exactly when the lower-cased search term occurs
\* in its lower-cased name, email, department or role, and keeps the rows in
\* their order; the empty term keeps every row; on the five seeded employees
\* the term ENGINEERING keeps exactly the one whose department is Engineering.
FilterKeepsMatches ==
    LET kept == filterEmployees(queryData, searchTerm) IN
    /\ \A r \in Range(queryData) :
           r \in Range(kept) <=> \E f \in SearchedFields : OccursIn(r[f], searchTerm)
    /\ Range(kept) \subseteq Range(queryData)
    /\ searchTerm = <<>> => kept = queryData
    /\ (queryData = sampleEmployees /\ searchTerm = <<"E", "N", "G", "I", "N", "E", "E", "R", "I", "N", "G">>)
       => /\ kept = <<SampleEmployee1>>
          /\ kept = SelectSeq(queryData, LAMBDA e : e.department = <<"E", "n", "g", "i", "n", "e", "e", "r", "i", "n", "g">>)

FilterKeepsMatchesWitness ==
    /\ queryData = sampleEmployees
    /\ searchTerm = <<"E", "N", "G", "I", "N", "E", "E", "R", "I", "N", "G">>
    /\ Len(filterEmployees(queryData, searchTerm)) = 1

\* C9: the filter is monotonic: the rows kept for the search term are kept
\* for every term that is a substring of it.
FilterMonotonic ==
    \A s1 \in SearchTerms :
        includes(searchTerm, s1)
        => Range(filterEmployees(queryData, searchTerm))
               \subseteq Range(filterEmployees(queryData, s1))

Salaries(rows) == [i \in 1..Len(rows) |-> rows[i].salary]

NoTies(keys) == \A i, j \in 1..Len(keys) : keys[i] = keys[j] => i = j

IsPermutation(order, n) == Len(order) = n /\ Range(order) = 1..n

\* rows with equal keys stand in the order they had before the sort
KeepsOrderOfEqualKeys(order, keys) ==
    \A i, j \in 1..Len(order) : (i < j /\ keys[order[i]] = keys[order[j]]) => order[i] < order[j]

\* C10: the filtered rows sorted by salary ascending and sorted by salary
\* descending are each other's reverse when no two salaries are equal; rows
\* with equal salaries keep their original relative order in both.
SortAscDescReversed ==
    LET rows == filterEmployees(queryData, searchTerm)
        n == Len(rows)
        keys == Salaries(rows)
        asc == sortOrder(rows, "salary", "asc")
        desc == sortOrder(rows, "salary", "desc")
    IN  /\ IsPermutation(asc, n) /\ IsPermutation(desc, n)
        /\ \A i, j \in 1..n : i < j => keys[asc[i]] <= keys[asc[j]]
        /\ \A i, j \in 1..n : i < j => keys[desc[i]] >= keys[desc[j]]
        /\ NoTies(keys) => \A i \in 1..n : desc[i] = asc[n + 1 - i]
        /\ KeepsOrderOfEqualKeys(asc, keys)
        /\ KeepsOrderOfEqualKeys(desc, keys)
        /\ (sortColumn = "salary" /\ sortDirection = "asc")
           => filteredAndSortedEmployees = [i \in 1..n |-> rows[asc[i]]]
        /\ (sortColumn = "salary" /\ sortDirection = "desc")
           => filteredAndSortedEmployees = [i \in 1..n |-> rows[desc[i]]]

SortAscDescReversedWitness ==
    LET rows == filterEmployees(queryData, searchTerm) IN
    /\ sortColumn = "salary" /\ sortDirection = "desc"
    /\ searchTerm # <<>>
    /\ Len(rows) >= 4
    /\ ~NoTies(Salaries(rows))
    /\ filteredAndSortedEmployees # rows

(***************************************************************************)
(* Pagination                                                              *)
(***************************************************************************)
\* the slices of pages p..last, one after the other
RECURSIVE ConcatPages(_, _, _, _)
ConcatPages(rows, size, p, last) ==
    IF p > last
    THEN <<>>
    ELSE paginate(rows, p, size) \o ConcatPages(rows, size, p + 1, last)

\* C11: totalPages is the least number of pages of pageSize rows that hold
\* all filtered rows, and the slices of pages 1..totalPages, one after the
\* other, are the filtered and sorted sequence: every row once, in order.
PagesPartitionRows ==
    LET rows == filteredAndSortedEmployees
        n == Len(rows)
    IN  /\ totalPages * pageSize >= n
        /\ totalPages >= 0
        /\ totalPages > 0 => (totalPages - 1) * pageSize < n
        /\ ConcatPages(rows, pageSize, 1, totalPages) = rows
        /\ \A p \in 1..totalPages :
               /\ Len(paginate(rows, p, pageSize)) >= 1
               /\ p < totalPages => Len(paginate(rows, p, pageSize)) = pageSize

\* several pages, the last one not full
PagesPartitionRowsWitness ==
    /\ totalPages >= 3
    /\ Len(filteredAndSortedEmployees) % pageSize # 0
    /\ lastEvent.name = "setPageSize"

\* C12: a page number beyond totalPages shows no rows; with a page size of
\* 10 and 5 filtered rows, page 2 is empty.
PageBeyondLastIsEmpty ==
    /\ currentPage > totalPages => paginatedEmployees = <<>>
    /\ (pageSize = 10 /\ Len(filteredAndSortedEmployees) = 5 /\ currentPage = 2)
       => paginatedEmployees = <<>>

\* page 2 of 26 rows was shown when the search left 5 rows
PageBeyondLastIsEmptyWitness ==
    /\ pageSize = 10
    /\ Len(filteredAndSortedEmployees) = 5
    /\ currentPage = 2
    /\ lastEvent.name = "setSearchTerm"

(***************************************************************************)
(* Sort header                                                             *)
(***************************************************************************)
\* the step is a click on the header of column
Clicked(column) == lastEvent'.name = "handleSort" /\ lastEvent'.target = column

\* the rows shown and the rows the filter keeps, after the step
ShownAfter == filteredAndSorted(queryData', searchTerm', sortColumn', sortDirection')

FilteredAfter == filterEmployees(queryData', searchTerm')

\* the rows are the filtered rows, in an order of salaries that never falls
ShownAscending(shown, filtered) ==
    /\ Len(shown) = Len(filtered)
    /\ Range(shown) = Range(filtered)
    /\ \A i, j \in 1..Len(shown) : i < j => shown[i].salary <= shown[j].salary

ShownDescending(shown, filtered) ==
    /\ Len(shown) = Len(filtered)
    /\ Range(shown) = Range(filtered)
    /\ \A i, j \in 1..Len(shown) : i < j => shown[i].salary >= shown[j].salary

\* C13: a click on the header of the sort column takes its direction from
\* unsorted to ascending, from ascending to descending and from descending
\* to unsorted; a click on another header makes that column the sort column,
\* ascending, whatever the direction was.
SortHeaderCycle ==
    [][\A column \in SortableColumns :
           Clicked(column) =>
               /\ sortColumn' = column
               /\ (sortColumn = column /\ sortDirection = "null") => sortDirection' = "asc"
               /\ (sortColumn = column /\ sortDirection = "asc") => sortDirection' = "desc"
               /\ (sortColumn = column /\ sortDirection = "desc") => sortDirection' = "null"
               /\ sortColumn # column => sortDirection' = "asc"]_vars

\* a column other than the first sort column was clicked twice
SortHeaderCycleWitness ==
    /\ lastEvent.name = "handleSort"
    /\ sortColumn = "name"
    /\ sortDirection = "desc"

\* C14 as stated: from the initial state the first click on the salary
\* header shows the rows ascending by salary, the second descending, the
\* third in the filtered order.
SalaryClicksFromInitialState ==
    [][Clicked("salary") =>
           /\ lastEvent.name = "mount" =>
                  /\ sortDirection' = "asc"
                  /\ ShownAscending(ShownAfter, FilteredAfter)
           /\ (sortColumn = "salary" /\ sortDirection = "asc") =>
                  /\ sortDirection' = "desc"
                  /\ ShownDescending(ShownAfter, FilteredAfter)
           /\ (sortColumn = "salary" /\ sortDirection = "desc" /\ lastEvent.name # "mount") =>
                  /\ sortDirection' = "null"
                  /\ ShownAfter = FilteredAfter]_vars

\* C14: the table starts sorted by salary, descending, so from the initial
\* state the first click on the salary header shows the rows in the
\* filtered order, the second ascending by salary, the third descending.
SalaryClicksFromDescending ==
    [][Clicked("salary") =>
           /\ lastEvent.name = "mount" =>
                  /\ sortColumn = "salary" /\ sortDirection = "desc"
                  /\ sortDirection' = "null"
                  /\ ShownAfter = FilteredAfter
           /\ (sortColumn = "salary" /\ sortDirection = "null") =>
                  /\ sortDirection' = "asc"
                  /\ ShownAscending(ShownAfter, FilteredAfter)
           /\ (sortColumn = "salary" /\ sortDirection = "asc") =>
                  /\ sortDirection' = "desc"
                  /\ ShownDescending(ShownAfter, FilteredAfter)]_vars

\* the salary header was clicked until the rows were descending again
SalaryClicksFromDescendingWitness ==
    /\ lastEvent.name = "handleSort"
    /\ lastEvent.target = "salary"
    /\ sortDirection = "desc"
    /\ Len(filteredAndSortedEmployees) >= 2

(***************************************************************************)
(* Selection                                                               *)
(***************************************************************************)
\* the step is a change of the checkbox of row id to checked
RowSelected(id, checked) ==
    /\ lastEvent'.name = "handleRowSelection"
    /\ lastEvent'.target = id
    /\ lastEvent'.checked = checked

AllIds == {queryData[i].id : i \in 1..Len(queryData)}

\* C15: in single mode a row-selection event leaves at most one row
\* selected: the row checked alone, whatever was selected before, or none
\* when a row is unchecked.
SingleModeKeepsAtMostOne ==
    [][\A id \in AllIds :
           /\ (selectionMode = "single" /\ lastEvent'.name = "handleRowSelection")
              => Cardinality(selectedRows') <= 1
           /\ (selectionMode = "single" /\ RowSelected(id, TRUE)) => selectedRows' = {id}
           /\ (selectionMode = "single" /\ RowSelected(id, FALSE)) => selectedRows' = {}]_vars

\* in single mode a row was checked and is the only one selected
SingleModeKeepsAtMostOneWitness ==
    /\ selectionMode = "single"
    /\ lastEvent.name = "handleRowSelection"
    /\ lastEvent.checked
    /\ selectedRows = {lastEvent.target}

\* C16 as stated: in multiple mode a select-all event leaves the membership
\* of every id that is not on the current page as it was.
SelectAllKeepsOtherPages ==
    [][(selectionMode = "multiple" /\ lastEvent'.name = "handleSelectAll")
       => \A id \in (selectedRows \cup selectedRows') \ PageIds :
              id \in selectedRows <=> id \in selectedRows']_vars

\* C17: in multiple mode a row-selection event for row r makes r selected
\* when checked and not selected when unchecked, and leaves the membership
\* of every other id as it was.
MultipleModeTogglesOneRow ==
    [][\A id \in AllIds, checked \in BOOLEAN :
           (selectionMode = "multiple" /\ RowSelected(id, checked))
           => /\ (id \in selectedRows') <=> checked
              /\ selectedRows' \ {id} = selectedRows \ {id}]_vars

\* in multiple mode a row was checked while another row stayed selected
MultipleModeTogglesOneRowWitness ==
    /\ selectionMode = "multiple"
    /\ lastEvent.name = "handleRowSelection"
    /\ lastEvent.checked
    /\ lastEvent.target \in selectedRows
    /\ Cardinality(selectedRows) >= 2

\* C18: the step that issues the delete request for row d takes d out of
\* the selection and leaves the other selected ids; after the step the
\* request is in flight and no response has come.
DeleteDeselectsAtOnce ==
    [][\A d \in AllIds :
           (lastEvent'.name = "handleDelete" /\ lastEvent'.target = d)
           => /\ requests["table"].kind = "none"
              /\ requests'["table"].kind = "DELETE"
              /\ requests'["table"].id = d
              /\ responses'["table"].kind = "none"
              /\ d \notin selectedRows'
              /\ selectedRows' \ {d} = selectedRows \ {d}]_vars

\* a selected row was deleted, another row stays selected, the request is
\* in flight
DeleteDeselectsAtOnceWitness ==
    /\ lastEvent.name = "handleDelete"
    /\ lastEvent.checked
    /\ lastEvent.target \notin selectedRows
    /\ selectedRows # {}
    /\ requests["table"].kind = "DELETE"
    /\ responses["table"].kind = "none"

\* C19 as stated: in mode none the selection is empty, or no row is shown
\* selected and no count of selected rows is shown.
NoneModeHidesSelection ==
    selectionMode = "none"
    => \/ selectedRows = {}
       \/ /\ ~selectionCountShown
          /\ \A id \in PageIds : ~rowHighlighted(id)

\* C20 as stated: a change of mode leaves the selection as it was, and in
\* single mode a selection of more than one row is brought to one row or
\* none by a row-selection event only.
OnlyRowSelectionReduces ==
    [][/\ lastEvent'.name = "setSelectionMode" => selectedRows' = selectedRows
       /\ (/\ selectionMode = "single" /\ selectionMode' = "single"
           /\ Cardinality(selectedRows) > 1
           /\ Cardinality(selectedRows') <= 1)
          => lastEvent'.name = "handleRowSelection"]_vars

\* C20: a change of mode leaves the selection as it was; in single mode a
\* selection of more than one row is brought to one row or none by a
\* row-selection event or by the delete of a selected row, and a
\* row-selection event does bring it to one row or none.
ModeChangeKeepsSelection ==
    [][/\ lastEvent'.name = "setSelectionMode" => selectedRows' = selectedRows
       /\ (/\ selectionMode = "single" /\ selectionMode' = "single"
           /\ Cardinality(selectedRows) > 1
           /\ Cardinality(selectedRows') <= 1)
          => lastEvent'.name \in {"handleRowSelection", "handleDelete"}
       /\ (selectionMode = "single" /\ lastEvent'.name = "handleRowSelection")
          => Cardinality(selectedRows') <= 1]_vars

\* the mode was changed to single with more than one row selected
ModeChangeKeepsSelectionWitness ==
    /\ lastEvent.name = "setSelectionMode"
    /\ selectionMode = "single"
    /\ Cardinality(selectedRows) > 1

(***************************************************************************)
(* Delete and refetch                                                      *)
(***************************************************************************)
CachedIds == {queryData[i].id : i \in 1..Len(queryData)}

CachedIdsAfter == {queryData'[i].id : i \in 1..Len(queryData')}

\* the step is mutate(id) of the delete mutation
DeleteIssued == ~isPending /\ mutation'.status = "pending"

\* the step is onSuccess of the delete mutation
SuccessHandled == isPending /\ mutation'.status = "success"

\* the step is onError of the delete mutation
ErrorHandled == isPending /\ mutation'.status = "error"

\* the step completes a refetch
Refetched == fetch.kind = "rows" /\ fetch'.kind = "none"

\* C21 as stated: an acknowledged delete starts a refetch, and when the
\* refetch completes the cached rows are the store's list, without the id
\* of the delete last acknowledged.
RefetchShowsStoreList ==
    [][/\ SuccessHandled => fetch'.kind = "GET"
       /\ Refetched => /\ queryData' = getEmployees(employees')
                       /\ mutation.status = "success"
                          => mutation.id \notin CachedIdsAfter]_vars

\* C21: an acknowledged delete starts a refetch; the store's answer to a
\* refetch is its list at that moment; a completed refetch makes that answer
\* the cached rows, which do not hold the deleted id; and an acknowledged
\* delete of d leads to a completed refetch with d out of the cached rows.
AcknowledgedDeleteRefetches ==
    /\ [][/\ SuccessHandled => fetch'.kind = "GET"
          /\ (fetch.kind = "GET" /\ fetch'.kind = "rows")
             => fetch'.rows = getEmployees(employees)
          /\ Refetched => /\ queryData' = fetch.rows
                          /\ mutation.status = "success"
                             => mutation.id \notin CachedIdsAfter]_vars
    /\ \A d \in DeleteRows :
           (DeleteAcknowledged /\ mutation.id = d)
           ~> (lastEvent.name = "refetched" /\ fetch = NoFetch /\ d \notin CachedIds)

\* a refetch completed after the delete of a row the table showed, and the
\* store has since lost another row
AcknowledgedDeleteRefetchesWitness ==
    /\ lastEvent.name = "refetched"
    /\ mutation.status = "success"
    /\ mutation.id \notin CachedIds
    /\ Len(queryData) = Len(sampleEmployees) - 1
    /\ queryData # getEmployees(employees)

\* the ids of the rows on the page, after the step
PageIdsAfter ==
    With(paginate(ShownAfter, currentPage', pageSize'),
         LAMBDA page : {page[i].id : i \in 1..Len(page)})

\* C22: the step that handles a failed delete leaves the cached rows as
\* they were, starts no refetch and sends no request; after a failure no
\* delete request is on its way; and a delete request of the table appears
\* only in a step of handleDelete, for the row of that click.
FailedDeleteChangesNothing ==
    [][/\ (mutation.status = "pending" /\ mutation'.status = "error")
          => /\ queryData' = queryData
             /\ fetch' = fetch
             /\ requests'["table"].kind = "none"
             /\ selectedRows' = selectedRows
       /\ mutation'.status = "error" => requests'["table"].kind = "none"
       /\ (requests["table"].kind = "none" /\ requests'["table"].kind = "DELETE")
          => /\ lastEvent'.name = "handleDelete"
             /\ lastEvent'.target = requests'["table"].id
             /\ mutation.status # "pending"
             /\ mutation' = [status |-> "pending", id |-> requests'["table"].id]]_vars

\* the store answered "not found" to a delete of a row the table still
\* shows; the failure was handled and no refetch or request is on its way
FailedDeleteChangesNothingWitness ==
    /\ lastEvent.name = "onError"
    /\ mutation.status = "error"
    /\ responses["table"].kind = "DELETE"
    /\ ~responses["table"].ok
    /\ fetch = NoFetch
    /\ requests["table"].kind = "none"
    /\ mutation.id \in CachedIds
    /\ ~MapHas(employees, mutation.id)

\* C23: the step that issues the delete of row d leaves the cached rows as
\* they were and d on the page; the cached rows change only in the step
\* that completes a refetch, so until then the page shows d whenever the
\* filter and the page would show it.
DeleteKeepsRowUntilRefetch ==
    [][/\ (mutation.status # "pending" /\ mutation'.status = "pending")
          => /\ queryData' = queryData
             /\ mutation'.id \in CachedIdsAfter
             /\ mutation'.id \in PageIdsAfter
       /\ queryData' # queryData => Refetched]_vars

\* the store has deleted the row and acknowledged, the refetch is on its
\* way, and the page still shows the row
DeleteKeepsRowUntilRefetchWitness ==
    /\ mutation.status = "success"
    /\ fetch.kind = "rows"
    /\ ~MapHas(employees, mutation.id)
    /\ mutation.id \in PageIds

\* C24 as stated: when the refetch after the acknowledged delete of row d
\* has completed, d is not selected.
DeletedRowNotSelected ==
    (lastEvent.name = "refetched" /\ mutation.status = "success" /\ fetch = NoFetch)
    => mutation.id \notin selectedRows

\* C29: a delete request of the table is on its way only while the
\* mutation is pending, for the row of the mutation; while the mutation is
\* pending no step issues a delete: the mutation stays pending for the same
\* row or settles, no new request is sent, and the selection changes only
\* by the checkboxes.
OneDeleteInFlight ==
    [][/\ requests'["table"].kind = "DELETE"
          => /\ mutation'.status = "pending"
             /\ mutation'.id = requests'["table"].id
       /\ mutation.status = "pending"
          => /\ mutation'.id = mutation.id
             /\ mutation'.status \in {"pending", "success", "error"}
             /\ requests'["table"] \in {requests["table"], NoRequest}
             /\ selectedRows' # selectedRows
                => lastEvent'.name \in {"handleRowSelection", "handleSelectAll"}]_vars

\* a delete is pending with its request on its way, and another row, shown
\* on the page with its delete button, is selected
OneDeleteInFlightWitness ==
    /\ mutation.status = "pending"
    /\ requests["table"].kind = "DELETE"
    /\ \E id \in PageIds \ {mutation.id} : id \in selectedRows

(***************************************************************************)
(* The page number and the selection under changes of the view             *)
(***************************************************************************)
\* the step changes the search term, the page size, the sort column or
\* direction, or the cached rows
ViewChanged ==
    \/ lastEvent'.name \in {"setSearchTerm", "setPageSize", "handleSort", "refetched"}
    \/ searchTerm' # searchTerm
    \/ pageSize' # pageSize
    \/ sortColumn' # sortColumn
    \/ sortDirection' # sortDirection
    \/ queryData' # queryData

\* the step changes the current page
PageChanged ==
    \/ lastEvent'.name \in {"previousPage", "nextPage", "goToPage", "lastPage"}
    \/ currentPage' # currentPage

\* C25: a step that changes the search term, the page size, the sort
\* column or direction, or that delivers refetched rows, leaves the current
\* page number as it was, whatever totalPages is after the step.
PageIndexNotCorrected ==
    [][ViewChanged => currentPage' = currentPage]_vars

\* refetched rows have arrived on page 2 of an unfiltered table of ten
\* rows a page, and there is one page only
PageIndexNotCorrectedWitness ==
    /\ lastEvent.name = "refetched"
    /\ searchTerm = <<>>
    /\ pageSize = 10
    /\ currentPage = 2
    /\ totalPages = 1

\* C27: a step that changes the current page, the page size, the search
\* term, the sort column or direction, or that delivers refetched rows,
\* leaves the selection as it was.
SelectionKeptByView ==
    [][(ViewChanged \/ PageChanged) => selectedRows' = selectedRows]_vars

\* after a search the selected row is filtered out
SelectionKeptByViewWitness ==
    /\ lastEvent.name = "setSearchTerm"
    /\ selectedRows # {}
    /\ DataState
    /\ selectedRows \cap {filteredAndSortedEmployees[i].id :
                              i \in 1..Len(filteredAndSortedEmployees)} = {}

\* the number of pages after the step
TotalPagesAfter == totalPagesOf(FilteredAfter, pageSize')

\* C28 as stated: the current page is at least 1, and a step of the
\* Previous, Next, numbered-page or last-page button leaves it between 1
\* and totalPages.
NavigationStaysInRange ==
    [][/\ currentPage' >= 1
       /\ lastEvent'.name \in {"previousPage", "nextPage", "goToPage", "lastPage"}
          => currentPage' \in 1..TotalPagesAfter]_vars

(***************************************************************************)
(* The page as a function of the view                                      *)
(***************************************************************************)
OtherSelections == {{}, CachedIds}

====
